---- MODULE Spec2Model ----
(***************************************************************************)
(* Zynthian audio mixer view (zyngui/zynthian_gui_mixer.py): the bank of   *)
(* mixer strips, the scroll offset, the selection, the view mode, the      *)
(* mixer engine values the view reads and writes, and the four rotary      *)
(* encoders.  Levels and balances are held in hundredths (80 is 0.8).      *)
(* A layer is identified by its midi_chan; the main mixbus layer has       *)
(* midi_chan MAX_NUM_CHANNELS.  Python's None is the value None below.     *)
(***************************************************************************)
EXTENDS Integers, Sequences, FiniteSets, TLC

\* ------------------------------------------------------------------------
\* Program constants
\* ------------------------------------------------------------------------
ENC_LAYER == 0
ENC_BACK == 1
ENC_SNAPSHOT == 2
ENC_SELECT == 3
MAX_NUM_CHANNELS == 16
None == -1000

\* ------------------------------------------------------------------------
\* Bounds of the model
\* ------------------------------------------------------------------------
\* len(self.visible_mixer_strips): zynthian_gui_config.visible_mixer_strips
VisibleChains == 2
\* root layers use the MIDI channels 0 .. NumChans-1
NumChans == 3

\* engine-changing requests (view setters, level encoder turns) in one run
MaxCalls == 1
\* detents the level and balance encoders are turned by in one run
MaxTurns == 2
\* LED updates made
MaxTick == 47
\* LED updates made with power save switched on and off
MaxPulseTick == 110
\* LED updates made between start and set_brightness calls
MaxHwTick == 3
\* LED updates made while set_led raises
MaxFailedTicks == 2

\* CUIA encoder nudges made in one run
MaxNudges == 3

Chans == 0 .. (NumChans - 1)
Slots == 0 .. (VisibleChains - 1)
Channels == 0 .. MAX_NUM_CHANNELS
\* chain indexes callers pass: below 0, every position, the main bus, beyond it
IndexArgs == (-1) .. (NumChans + 1)
\* levels and balances callers pass, in hundredths: below, inside, above the range
LevelArgs == {-50, 29, 170}
BalanceArgs == {-150, 58}
\* saved mixer states: the default record in every slot but one, which holds
\* any of the records of these values
DefaultRecord == [level |-> 80, balance |-> 0, mute |-> FALSE, solo |-> FALSE, mono |-> FALSE]
StateRecords == [level : {0, 100}, balance : {-100, 100}, mute : BOOLEAN, solo : BOOLEAN, mono : BOOLEAN]
StateSlots == {0, MAX_NUM_CHANNELS}
StateLists ==
    {[strip \in Channels |-> IF strip = k THEN r ELSE DefaultRecord] :
        k \in StateSlots, r \in StateRecords}

VARIABLES
    root_layers,          \* chain manager: root layers in order (midi_chan of each)
    shown,                \* zynthian_gui_base.shown
    number_layers,        \* self.number_layers
    mixer_strip_offset,   \* self.mixer_strip_offset
    selected_chain_index, \* self.selected_chain_index
    selected_layer,       \* self.selected_layer
    mode,                 \* self.mode   1: Mixer, 0: Edit
    edit_chain_index,     \* self.edit_chain_index
    redraw_pending,       \* self.redraw_pending
    strips,               \* self.visible_mixer_strips: slot -> [layer, hidden, redraw_controls_flag]
    main_redraw_flag,     \* self.main_mixbus_strip.redraw_controls_flag
    level, balance, mute, solo, mono,   \* zynmixer values per channel
    zynpot_value,         \* lib_zyncore: value of each encoder
    zynpot_flag,          \* lib_zyncore: changed-since-read flag of each encoder
    zynpot_max,           \* lib_zyncore: upper end of each encoder's range
    calls,                \* how many engine-changing requests were made so far
    tracked,              \* history: the operations whose steps lastOp records
    lastOp,               \* history: the last operation, its arguments, the state it started from
    edit_entry,           \* history: the strip bindings when edit mode was entered
    wsleds,               \* zynthian_wsleds_v5 object of each run: blink_count, blink_state, pulse_step, out
    zyngui                \* what the LED updater of each run read of the application at its last update

vars == <<root_layers, shown, number_layers, mixer_strip_offset,
          selected_chain_index, selected_layer, mode, edit_chain_index,
          redraw_pending, strips, main_redraw_flag, level, balance, mute, solo,
          mono, zynpot_value, zynpot_flag, zynpot_max, calls, tracked, lastOp,
          edit_entry, wsleds, zyngui>>

\* The program state as one record, so that a handler is a function on it.
\* exc: the handler ended by raising an exception.
State ==
    [root_layers |-> root_layers, shown |-> shown,
     number_layers |-> number_layers, mixer_strip_offset |-> mixer_strip_offset,
     selected_chain_index |-> selected_chain_index, selected_layer |-> selected_layer,
     mode |-> mode, edit_chain_index |-> edit_chain_index,
     redraw_pending |-> redraw_pending, strips |-> strips,
     main_redraw_flag |-> main_redraw_flag, level |-> level, balance |-> balance,
     mute |-> mute, solo |-> solo, mono |-> mono, zynpot_value |-> zynpot_value,
     zynpot_flag |-> zynpot_flag, zynpot_max |-> zynpot_max, calls |-> calls,
     exc |-> FALSE]

\* What the history keeps of the state an operation started from.
Pre ==
    [sel |-> selected_chain_index, off |-> mixer_strip_offset, nl |-> number_layers,
     mode |-> mode]

NoOp ==
    [name |-> "-", arg |-> None, val |-> None, raised |-> FALSE,
     pre |-> [sel |-> None, off |-> 0, nl |-> 0, mode |-> 1]]

NoEntry == [open |-> FALSE, layers |-> <<>>, off |-> 0, sel |-> None, changed |-> FALSE]

Bindings(s) == [j \in Slots |-> s.strips[j].layer]

\* The bindings, offset and selection edit mode was entered from (from mixer
\* mode), kept while the view stays in edit mode; changed: the chain manager's
\* list changed since.
EditEntry(name, t) ==
    IF "set_edit_mode" \notin tracked THEN NoEntry
    ELSE IF name = "set_edit_mode" /\ mode = 1
    THEN [open |-> TRUE, layers |-> Bindings(State), off |-> mixer_strip_offset,
          sel |-> selected_chain_index, changed |-> FALSE]
    ELSE IF t.mode = 1 THEN NoEntry
    ELSE [edit_entry EXCEPT !.changed = @ \/ (edit_entry.open /\ t.root_layers # root_layers)]

\* The step of operation `name` with arguments `arg` (an index) and `val` (a
\* value) that ends in state t.
Apply(name, arg, val, t) ==
    /\ root_layers' = t.root_layers
    /\ shown' = t.shown
    /\ number_layers' = t.number_layers
    /\ mixer_strip_offset' = t.mixer_strip_offset
    /\ selected_chain_index' = t.selected_chain_index
    /\ selected_layer' = t.selected_layer
    /\ mode' = t.mode
    /\ edit_chain_index' = t.edit_chain_index
    /\ redraw_pending' = t.redraw_pending
    /\ strips' = t.strips
    /\ main_redraw_flag' = t.main_redraw_flag
    /\ level' = t.level
    /\ balance' = t.balance
    /\ mute' = t.mute
    /\ solo' = t.solo
    /\ mono' = t.mono
    /\ zynpot_value' = t.zynpot_value
    /\ zynpot_flag' = t.zynpot_flag
    /\ zynpot_max' = t.zynpot_max
    /\ calls' = t.calls
    /\ tracked' = tracked
    /\ lastOp' = IF name \in tracked
                 THEN [name |-> name, arg |-> arg, val |-> val, raised |-> t.exc, pre |-> Pre]
                 ELSE NoOp
    /\ edit_entry' = EditEntry(name, t)
    /\ UNCHANGED <<wsleds, zyngui>>

\* ------------------------------------------------------------------------
\* Python helpers
\* ------------------------------------------------------------------------
\* int(level * 100) of a level held as x hundredths.  The engine holds the
\* double x * 0.01 an encoder wrote or the double x / 100 a caller passed; for
\* the levels used here the two are the same double, and its product by 100
\* falls just below x for x = 29 and x = 58, where int truncates to x - 1.
PyIntLevel100(x) == IF x \in {29, 58} THEN x - 1 ELSE x

\* int(x * 50) of a balance held as x hundredths (truncation toward zero).
PyIntBalance50(x) ==
    IF x \in {58} THEN 28
    ELSE IF x \in {-58} THEN -28
    ELSE IF x >= 0 THEN x \div 2 ELSE -((-x) \div 2)

\* list[i] on a list of length n: the position read, or None for IndexError.
PyIndex(n, i) ==
    IF 0 <= i /\ i < n THEN i
    ELSE IF -n <= i /\ i < 0 THEN n + i
    ELSE None

\* lib_zyncore.set_value_noflag_zynpot: the value is kept inside the range.
ClampPot(s, i, v) == IF v < 0 THEN 0 ELSE IF v > s.zynpot_max[i] THEN s.zynpot_max[i] ELSE v

set_value_noflag_zynpot(s, i, v) ==
    [s EXCEPT !.zynpot_value[i] = ClampPot(s, i, v)]

\* ------------------------------------------------------------------------
\* zynthian_gui_mixer_strip
\* ------------------------------------------------------------------------
main_layer == MAX_NUM_CHANNELS

\* layer.engine.type == "MIDI Tool": the type is fixed when the layer is made;
\* here the root layers on these MIDI channels are the MIDI-only ones.
MidiToolChans == {1}

IsMidiTool(layer) == layer \in MidiToolChans

\* draw(): draw_controls() clears the flag unless the strip is hidden, has no
\* layer or shows a MIDI Tool.
strip_draw(s, strip) ==
    IF strip.hidden \/ strip.layer = None \/ IsMidiTool(strip.layer)
    THEN strip
    ELSE [strip EXCEPT !.redraw_controls_flag = FALSE]

strip_hide(strip) == [strip EXCEPT !.hidden = TRUE]

strip_show(s, strip) == strip_draw(s, [strip EXCEPT !.hidden = FALSE])

strip_set_layer(s, strip, layer) ==
    IF layer = None
    THEN strip_hide([strip EXCEPT !.layer = None])
    ELSE strip_show(s, [strip EXCEPT !.layer = layer])

\* ------------------------------------------------------------------------
\* zynthian_gui_mixer
\* ------------------------------------------------------------------------
update_zyncoders(s) ==
    LET s1 == IF s.selected_layer # None
              THEN LET a == set_value_noflag_zynpot(s, ENC_LAYER,
                                PyIntLevel100(s.level[s.selected_layer]))
                       b == set_value_noflag_zynpot(a, ENC_BACK,
                                50 + PyIntBalance50(s.balance[s.selected_layer]))
                   IN  set_value_noflag_zynpot(b, ENC_SNAPSHOT,
                                PyIntLevel100(s.level[main_layer]))
              ELSE s
    IN  IF s.selected_chain_index = None
        THEN [s1 EXCEPT !.exc = TRUE]
        ELSE set_value_noflag_zynpot(s1, ENC_SELECT, 4 * s.selected_chain_index)

\* Mutant: a selection beyond the new chain count is clamped to it.
set_mixer_mode_clamp(s) ==
    LET layers == s.root_layers
        n == Len(layers)
    IN  [s EXCEPT
           !.number_layers = n,
           !.strips = [j \in Slots |->
                          IF s.mixer_strip_offset + j >= n
                          THEN strip_set_layer(s, s.strips[j], None)
                          ELSE strip_set_layer(s, s.strips[j],
                                               layers[s.mixer_strip_offset + j + 1])],
           !.mode = 1,
           !.edit_chain_index = None,
           !.selected_chain_index = IF @ # None /\ @ > n THEN n ELSE @]

set_mixer_mode(s) ==
    LET layers == s.root_layers
        n == Len(layers)
    IN  [s EXCEPT
           !.number_layers = n,
           !.strips = [j \in Slots |->
                          IF s.mixer_strip_offset + j >= n
                          THEN strip_set_layer(s, s.strips[j], None)
                          ELSE strip_set_layer(s, s.strips[j],
                                               layers[s.mixer_strip_offset + j + 1])],
           !.mode = 1,
           !.edit_chain_index = None]

\* select_chain_by_index as defined below, given the guard that tells whether
\* the call returns at once and the index it selects.
select_body(s, chain_index, returns, ci) ==
    IF returns THEN s
    ELSE
      LET s1 == [s EXCEPT !.selected_chain_index = ci]
          s2 == IF ci < s1.mixer_strip_offset
                THEN set_mixer_mode([s1 EXCEPT !.mixer_strip_offset = ci])
                ELSE IF ci >= s1.mixer_strip_offset + VisibleChains /\ ci # s1.number_layers
                THEN set_mixer_mode([s1 EXCEPT !.mixer_strip_offset = ci - VisibleChains + 1])
                ELSE s1
          k  == PyIndex(VisibleChains, s2.selected_chain_index - s2.mixer_strip_offset)
      IN  IF s2.selected_chain_index < s2.number_layers /\ k = None
          THEN [s2 EXCEPT !.exc = TRUE]
          ELSE update_zyncoders(
                 [s2 EXCEPT !.selected_layer =
                     IF s2.selected_chain_index < s2.number_layers
                     THEN s2.strips[k].layer
                     ELSE main_layer])

\* Mutant: the index is not clamped to number_layers.
select_chain_by_index_noclamp(s, chain_index) ==
    select_body(s, chain_index,
        \/ s.mode = 0
        \/ chain_index = None
        \/ chain_index < 0
        \/ chain_index = s.selected_chain_index
        \/ s.number_layers = 0,
        chain_index)

\* Mutant: selecting the selected index again is not skipped.
select_chain_by_index_reselect(s, chain_index) ==
    select_body(s, chain_index,
        \/ s.mode = 0
        \/ chain_index = None
        \/ chain_index < 0
        \/ s.number_layers = 0,
        IF chain_index > s.number_layers THEN s.number_layers ELSE chain_index)

select_chain_by_index(s, chain_index) ==
    select_body(s, chain_index,
        \/ s.mode = 0
        \/ chain_index = None
        \/ chain_index < 0
        \/ chain_index = s.selected_chain_index
        \/ s.number_layers = 0,
        IF chain_index > s.number_layers THEN s.number_layers ELSE chain_index)

set_edit_mode(s) ==
    LET last == VisibleChains - 1
        hid  == [j \in Slots |-> strip_hide(s.strips[j])]
        \* set_layer(selected_layer), show(), draw() on the last strip
        st   == strip_draw(s, strip_show(s, strip_set_layer(s, hid[last], s.selected_layer)))
    IN  [s EXCEPT
           !.mode = 0,
           !.edit_chain_index = s.selected_chain_index,
           !.strips = [hid EXCEPT ![last] = st],
           \* draw_balance_edit() reads selected_layer.midi_chan, set_title()
           \* adds 1 to selected_chain_index
           !.exc = (s.selected_layer = None \/ s.selected_chain_index = None)]

\* ------------------------------------------------------------------------
\* zynmixer: the engine keeps what it is given, per channel
\* ------------------------------------------------------------------------
zynmixer_set_level(s, ch, v) == [s EXCEPT !.level[ch] = v]

zynmixer_set_balance(s, ch, v) == [s EXCEPT !.balance[ch] = v]

zynmixer_set_mute(s, ch, v) == [s EXCEPT !.mute[ch] = v]

zynmixer_set_solo(s, ch, v) == [s EXCEPT !.solo[ch] = v]

zynmixer_set_mono(s, ch, v) == [s EXCEPT !.mono[ch] = v]

zynmixer_toggle_solo(s, ch) == [s EXCEPT !.solo[ch] = ~s.solo[ch]]

\* ------------------------------------------------------------------------
\* Strip operations, on the strip at a position: a slot of
\* visible_mixer_strips, or main_mixbus_strip
\* ------------------------------------------------------------------------
main_mixbus_strip == VisibleChains

strip_layer(s, ref) == IF ref = main_mixbus_strip THEN main_layer ELSE s.strips[ref].layer

set_redraw_controls(s, ref) ==
    IF ref = main_mixbus_strip
    THEN [s EXCEPT !.main_redraw_flag = TRUE]
    ELSE [s EXCEPT !.strips[ref].redraw_controls_flag = TRUE]

\* draw_controls(): layer.midi_chan of a strip that is shown without a layer
\* raises AttributeError.
draw_controls(s, ref) ==
    IF ref = main_mixbus_strip THEN [s EXCEPT !.main_redraw_flag = FALSE]
    ELSE IF s.strips[ref].hidden THEN s
    ELSE IF s.strips[ref].layer = None THEN [s EXCEPT !.exc = TRUE]
    ELSE [s EXCEPT !.strips[ref].redraw_controls_flag = FALSE]

set_redraw_pending(s) == [s EXCEPT !.redraw_pending = TRUE]

\* Mutant: the value is stored as given.
strip_set_volume_noclamp(s, ref, value) ==
    IF strip_layer(s, ref) = None THEN s
    ELSE set_redraw_controls(zynmixer_set_level(s, strip_layer(s, ref), value), ref)

strip_set_volume(s, ref, value) ==
    LET v == IF value < 0 THEN 0 ELSE IF value > 100 THEN 100 ELSE value
    IN  IF strip_layer(s, ref) = None THEN s
        ELSE set_redraw_controls(zynmixer_set_level(s, strip_layer(s, ref), v), ref)

strip_set_balance(s, ref, value) ==
    LET v == IF value < -100 THEN -100 ELSE IF value > 100 THEN 100 ELSE value
    IN  IF strip_layer(s, ref) = None THEN s
        ELSE set_redraw_controls(zynmixer_set_balance(s, strip_layer(s, ref), v), ref)

strip_reset_balance(s, ref) ==
    IF strip_layer(s, ref) = None THEN s
    ELSE set_redraw_controls(zynmixer_set_balance(s, strip_layer(s, ref), 0), ref)

strip_reset_volume(s, ref) ==
    IF strip_layer(s, ref) = None THEN s
    ELSE set_redraw_controls(zynmixer_set_level(s, strip_layer(s, ref), 80), ref)

strip_set_mute(s, ref, value) ==
    IF strip_layer(s, ref) = None THEN s
    ELSE set_redraw_controls(zynmixer_set_mute(s, strip_layer(s, ref), value), ref)

strip_set_solo(s, ref, value) ==
    IF strip_layer(s, ref) = None THEN s
    ELSE set_redraw_pending(
           set_redraw_controls(zynmixer_set_solo(s, strip_layer(s, ref), value), ref))

strip_toggle_solo(s, ref) ==
    IF strip_layer(s, ref) = None THEN s
    ELSE set_redraw_pending(
           set_redraw_controls(zynmixer_toggle_solo(s, strip_layer(s, ref)), ref))

strip_set_mono(s, ref, value) ==
    IF strip_layer(s, ref) = None THEN s
    ELSE set_redraw_controls(zynmixer_set_mono(s, strip_layer(s, ref), value), ref)

\* ------------------------------------------------------------------------
\* zynthian_gui_mixer: the setters
\* ------------------------------------------------------------------------
\* The strip returned (None: no strip), or raised: the list index was out of
\* range.  A negative list index counts from the end of the list.
get_mixer_strip_from_layer_index(s, layer_index) ==
    LET chi == IF layer_index = None THEN s.selected_chain_index ELSE layer_index
    IN  IF chi = None \/ chi < 0 THEN [raised |-> FALSE, strip |-> None]
        ELSE IF chi < s.number_layers
        THEN LET k == PyIndex(VisibleChains, chi - s.mixer_strip_offset)
             IN  [raised |-> k = None, strip |-> k]
        ELSE [raised |-> FALSE, strip |-> main_mixbus_strip]

\* Mutant: every layer counts as an audio layer.
is_audio_layer_any(layer) == layer # None

is_audio_layer(layer) == layer = main_layer \/ (layer # None /\ ~IsMidiTool(layer))

set_volume(s, value, layer_index) ==
    LET r == get_mixer_strip_from_layer_index(s, layer_index)
    IN  IF r.raised THEN [s EXCEPT !.exc = TRUE]
        ELSE IF r.strip = None THEN s
        ELSE LET s1 == strip_set_volume(s, r.strip, value)
             IN  IF layer_index = s.selected_chain_index THEN update_zyncoders(s1) ELSE s1

set_balance(s, value, layer_index) ==
    LET r == get_mixer_strip_from_layer_index(s, layer_index)
    IN  IF r.raised THEN [s EXCEPT !.exc = TRUE]
        ELSE IF r.strip = None \/ ~is_audio_layer(strip_layer(s, r.strip)) THEN s
        ELSE LET s1 == strip_set_balance(s, r.strip, value)
             IN  IF layer_index = s.selected_chain_index THEN update_zyncoders(s1) ELSE s1

reset_balance(s, layer_index) ==
    LET r == get_mixer_strip_from_layer_index(s, layer_index)
    IN  IF r.raised THEN [s EXCEPT !.exc = TRUE]
        ELSE IF r.strip = None \/ ~is_audio_layer(strip_layer(s, r.strip)) THEN s
        ELSE LET s1 == strip_reset_balance(s, r.strip)
             IN  IF layer_index = s.selected_chain_index THEN update_zyncoders(s1) ELSE s1

reset_volume(s, layer_index) ==
    LET r == get_mixer_strip_from_layer_index(s, layer_index)
    IN  IF r.raised THEN [s EXCEPT !.exc = TRUE]
        ELSE IF r.strip = None \/ ~is_audio_layer(strip_layer(s, r.strip)) THEN s
        ELSE LET s1 == strip_reset_volume(s, r.strip)
             IN  IF layer_index = s.selected_chain_index THEN update_zyncoders(s1) ELSE s1

set_mute(s, value, layer_index) ==
    LET r == get_mixer_strip_from_layer_index(s, layer_index)
    IN  IF r.raised THEN [s EXCEPT !.exc = TRUE]
        ELSE IF r.strip = None \/ ~is_audio_layer(strip_layer(s, r.strip)) THEN s
        ELSE strip_set_mute(s, r.strip, value)

set_solo(s, value, layer_index) ==
    LET r == get_mixer_strip_from_layer_index(s, layer_index)
    IN  IF r.raised THEN [s EXCEPT !.exc = TRUE]
        ELSE IF r.strip = None \/ ~is_audio_layer(strip_layer(s, r.strip)) THEN s
        ELSE set_redraw_controls(strip_set_solo(s, r.strip, value), main_mixbus_strip)

set_mono(s, value, layer_index) ==
    LET r == get_mixer_strip_from_layer_index(s, layer_index)
    IN  IF r.raised THEN [s EXCEPT !.exc = TRUE]
        ELSE IF r.strip = None \/ ~is_audio_layer(strip_layer(s, r.strip)) THEN s
        ELSE strip_set_mono(s, r.strip, value)

\* toggle_solo as defined below; marks_main: the main mixbus strip is marked.
toggle_solo_body(s, layer_index, marks_main) ==
    LET r == get_mixer_strip_from_layer_index(s, layer_index)
    IN  IF r.raised THEN [s EXCEPT !.exc = TRUE]
        ELSE IF r.strip = None \/ ~is_audio_layer(strip_layer(s, r.strip)) THEN s
        ELSE LET s1 == strip_toggle_solo(s, r.strip)
                 s2 == IF r.strip = main_mixbus_strip
                       THEN [s1 EXCEPT !.strips =
                               [j \in Slots |->
                                  [s1.strips[j] EXCEPT !.redraw_controls_flag = TRUE]]]
                       ELSE s1
             IN  IF marks_main THEN set_redraw_controls(s2, main_mixbus_strip) ELSE s2

\* Mutant: the main mixbus strip is not marked.
toggle_solo_nomain(s, layer_index) == toggle_solo_body(s, layer_index, FALSE)

toggle_solo(s, layer_index) == toggle_solo_body(s, layer_index, TRUE)

\* ------------------------------------------------------------------------
\* zynthian_gui_mixer: encoder polling
\* ------------------------------------------------------------------------
\* lib_zyncore.get_value_flag_zynpot: reading the changed flag clears it.
get_value_flag_zynpot(s, i) == [s EXCEPT !.zynpot_flag[i] = FALSE]

\* Mutant: the raw value is divided by 4 as it is.
SelectValue_floor(value) == value \div 4

\* int((1 + value) / 4)
SelectValue(value) == (1 + value) \div 4

\* Mutant: the level encoder is not copied to the main-level encoder.
zyncoder_read_layer_nomirror(s) ==
    IF ~s.zynpot_flag[ENC_LAYER] THEN s
    ELSE zynmixer_set_level(get_value_flag_zynpot(s, ENC_LAYER), s.selected_layer,
                            s.zynpot_value[ENC_LAYER])

zyncoder_read_layer(s) ==
    IF ~s.zynpot_flag[ENC_LAYER] THEN s
    ELSE LET value == s.zynpot_value[ENC_LAYER]
             a == get_value_flag_zynpot(s, ENC_LAYER)
             b == IF s.selected_layer = main_layer
                  THEN set_value_noflag_zynpot(a, ENC_SNAPSHOT, value)
                  ELSE a
         IN  zynmixer_set_level(b, s.selected_layer, value)

\* (value - 50) * 0.02 in hundredths
zyncoder_read_back(s) ==
    IF ~s.zynpot_flag[ENC_BACK] THEN s
    ELSE zynmixer_set_balance(get_value_flag_zynpot(s, ENC_BACK), s.selected_layer,
                              (s.zynpot_value[ENC_BACK] - 50) * 2)

zyncoder_read_snapshot(s) ==
    IF ~s.zynpot_flag[ENC_SNAPSHOT] THEN s
    ELSE LET value == s.zynpot_value[ENC_SNAPSHOT]
             a == get_value_flag_zynpot(s, ENC_SNAPSHOT)
             b == IF s.selected_layer = main_layer
                  THEN set_value_noflag_zynpot(a, ENC_LAYER, value)
                  ELSE a
         IN  zynmixer_set_level(b, main_layer, value)

zyncoder_read_select(s) ==
    IF ~s.zynpot_flag[ENC_SELECT] THEN s
    ELSE LET value == SelectValue(s.zynpot_value[ENC_SELECT])
             a == get_value_flag_zynpot(s, ENC_SELECT)
         IN  IF a.mode # 0 /\ value # a.selected_chain_index
             THEN select_chain_by_index(a, value)
             ELSE a

zyncoder_read(s) ==
    IF ~s.shown THEN s
    ELSE
      LET sl == s.selected_layer # None
          strip_turned == sl /\ (s.zynpot_flag[ENC_LAYER] \/ s.zynpot_flag[ENC_BACK])
          redraw_main_fader ==
              \/ strip_turned /\ s.selected_layer = main_layer
              \/ sl /\ s.zynpot_flag[ENC_SNAPSHOT]
          redraw_strip == strip_turned /\ s.selected_layer # main_layer
          \* selected_chain_index - mixer_strip_offset, as a list index
          k  == IF s.selected_chain_index = None THEN None
                ELSE PyIndex(VisibleChains, s.selected_chain_index - s.mixer_strip_offset)
          s1 == IF sl
                THEN zyncoder_read_snapshot(zyncoder_read_back(zyncoder_read_layer(s)))
                ELSE s
      IN  IF redraw_strip /\ s.selected_chain_index = None
          THEN [s1 EXCEPT !.exc = TRUE]
          ELSE LET s2 == zyncoder_read_select(s1)
                   s3 == IF s2.exc \/ ~redraw_main_fader THEN s2
                         ELSE draw_controls(s2, main_mixbus_strip)
               IN  IF s3.exc \/ ~redraw_strip THEN s3
                   ELSE IF k = None THEN [s3 EXCEPT !.exc = TRUE]
                   ELSE draw_controls(s3, k)

\* lib_zyncore: the user turns encoder i by d detents; the value stays in the
\* encoder's range and the changed flag is raised.
turn_zynpot(s, i, d) ==
    [s EXCEPT !.zynpot_value[i] = s.zynpot_value[i] + d, !.zynpot_flag[i] = TRUE]

\* lib_zyncore.set_value_zynpot: the value is kept inside the range and the
\* changed flag is raised.
set_value_zynpot(s, i, v) ==
    [s EXCEPT !.zynpot_value[i] = ClampPot(s, i, v), !.zynpot_flag[i] = TRUE]

zyncoder_up(s, num, inc) == set_value_zynpot(s, num, s.zynpot_value[num] + inc)

zyncoder_down(s, num, dec) ==
    LET value == s.zynpot_value[num] - dec
    IN  set_value_zynpot(s, num, IF value < 0 THEN 0 ELSE value)

back_up(s) == zyncoder_up(s, ENC_BACK, 1)

\* self.zyncoder_back is not an attribute of the view: AttributeError.
back_down(s) == [s EXCEPT !.exc = TRUE]

layer_up(s) == zyncoder_up(s, ENC_LAYER, 1)

layer_down(s) == zyncoder_down(s, ENC_LAYER, 1)

snapshot_up(s) == zyncoder_up(s, ENC_SNAPSHOT, 1)

snapshot_down(s) == zyncoder_down(s, ENC_SNAPSHOT, 1)

\* ------------------------------------------------------------------------
\* zynthian_wsleds_base, zynthian_wsleds_v5
\* ------------------------------------------------------------------------
\* Two LED updaters run side by side, each on an application of its own.
Runs == {1, 2}

\* What update() reads of the application: power save mode, the current
\* screen and whether the metronome is enabled, and whether lib_zyncore's
\* set_led raises.  alt_mode and MIDI learn are off, status_info is empty,
\* there are no chains, and neither screen has an update_wsleds of its own.
AppStates ==
    [power_save_mode : BOOLEAN, current_screen : {"audio_mixer", "tempo"},
     metronome : BOOLEAN, set_led_fails : {FALSE}]

AppInit ==
    [power_save_mode |-> FALSE, current_screen |-> "audio_mixer", metronome |-> FALSE,
     set_led_fails |-> FALSE]

\* create_color() at brightness 1
wscolor_off == <<0, 0, 0>>
wscolor_red == <<140, 0, 0>>
wscolor_green == <<0, 220, 0>>
wscolor_yellow == <<160, 160, 0>>
wscolor_blue == <<0, 0, 220>>
wscolor_default == wscolor_blue
wscolor_active == wscolor_green

\* num_leds of the revisions
V5_NUM_LEDS == 20
Z2_NUM_LEDS == 25

\* The length setup_colors gives the listPixels cache.
LIST_PIXELS == 20

\* create_color(r, g, b) at the brightness of l, held in hundredths
create_color(l, c) ==
    <<(l.brightness * c[1]) \div 100, (l.brightness * c[2]) \div 100,
      (l.brightness * c[3]) \div 100>>

\* setup_colors(): the colours are those of create_color at the brightness
\* of l, and the listPixels cache is 20 entries again.  Of the cache the
\* length is kept; its entries are read by the capture log only, which is off.
setup_colors(l) == [l EXCEPT !.listPixels_len = LIST_PIXELS]

\* The object after __init__ of a revision with n LEDs.
\* leds: the colour the hardware holds for each LED, kept up to date when the
\* history tracks set_led.
\* out: the set_led calls of the last update, in order.
\* exc: the last update ended by raising; aborted: its update_wsleds raised
\* and update caught it.
wsleds_new(n) ==
    setup_colors(
        [num_leds |-> n, brightness |-> 100, blink_count |-> 0, blink_state |-> FALSE,
         pulse_step |-> 0, listPixels_len |-> 0,
         leds |-> [i \in 0 .. (Z2_NUM_LEDS - 1) |-> wscolor_off],
         out |-> <<>>, set_led_fails |-> FALSE, exc |-> FALSE, aborted |-> FALSE])

wsleds_init == wsleds_new(V5_NUM_LEDS)

set_brightness(l, brightness) ==
    setup_colors([l EXCEPT !.brightness =
                     IF brightness < 0 THEN 0 ELSE IF brightness > 100 THEN 0 ELSE brightness])

\* set_all_leds / reset_all_leds of lib_zyncore
set_all_leds(l, c) ==
    IF "set_led" \in tracked THEN [l EXCEPT !.leds = [i \in DOMAIN l.leds |-> c]] ELSE l

light_on_all(l) ==
    IF l.num_leds > 0 THEN set_all_leds(l, create_color(l, wscolor_default)) ELSE l

light_off_all(l) ==
    IF l.num_leds > 0 THEN set_all_leds(l, wscolor_off) ELSE l

\* start(): num_leds more entries are appended to the cache.
start(l) ==
    IF l.num_leds > 0
    THEN light_on_all([l EXCEPT !.listPixels_len = @ + l.num_leds])
    ELSE l

\* setPixelColor(i, wscolor): set_led, then the cache entry, which raises
\* IndexError beyond the end of the cache.  wscolor is given as the colour at
\* brightness 1; what is written is the colour setup_colors made of it.
setPixelColor(l, i, wscolor) ==
    IF l.exc THEN l
    ELSE IF l.set_led_fails THEN [l EXCEPT !.exc = TRUE]
    ELSE LET c == create_color(l, wscolor)
             l1 == [l EXCEPT !.out = Append(@, <<i, c>>),
                             !.leds[i] = IF "set_led" \in tracked THEN c ELSE @]
         IN  IF i >= l.listPixels_len THEN [l1 EXCEPT !.exc = TRUE] ELSE l1

blink(l, i, color) ==
    IF l.blink_state THEN setPixelColor(l, i, color) ELSE setPixelColor(l, i, wscolor_off)

\* create_color(0, int(brightness * pulse_step * 6), 0)
pulse(l, i) ==
    LET color == <<0, (l.brightness * l.pulse_step * 6) \div 100, 0>>
    IN  IF l.blink_state
        THEN setPixelColor([l EXCEPT !.pulse_step = @ + 1], i, color)
        ELSE IF l.pulse_step > 0
        THEN setPixelColor([l EXCEPT !.pulse_step = @ - 1], i, color)
        ELSE setPixelColor([l EXCEPT !.pulse_step = 0], i, wscolor_off)

\* A run of setPixelColor calls with one colour.
SetPixels(l, is, wscolor) ==
    LET F[k \in 0 .. Len(is)] ==
            IF k = 0 THEN l ELSE setPixelColor(F[k - 1], is[k], wscolor)
    IN  F[Len(is)]

update_wsleds(l, z) ==
    LET a == setPixelColor(l, 0, wscolor_default)
        b == setPixelColor(a, 1, IF z.current_screen = "audio_mixer"
                                 THEN wscolor_active ELSE wscolor_default)
        c == SetPixels(b, <<2, 3, 5>>, wscolor_default)
        d == IF z.current_screen = "tempo" THEN setPixelColor(c, 6, wscolor_active)
             ELSE IF z.metronome THEN blink(c, 6, wscolor_active)
             ELSE setPixelColor(c, 6, wscolor_default)
        e == SetPixels(d, <<7, 8, 9, 10>>, wscolor_default)
        f == setPixelColor(setPixelColor(e, 13, wscolor_green), 15, wscolor_red)
        g == SetPixels(f, <<14, 16, 17, 18>>, wscolor_yellow)
    IN  SetPixels(g, <<4, 11, 12, 19>>, wscolor_default)

\* zynthian_wsleds_z2.update_wsleds
update_wsleds_z2(l, z) ==
    LET a == setPixelColor(l, 0, wscolor_default)
        b == SetPixels(a, <<1, 2, 3, 4, 5, 6>>, wscolor_off)
        c == SetPixels(b, <<7, 8, 9, 10, 11, 12, 13, 14, 17, 15>>, wscolor_default)
        d == IF z.current_screen = "tempo" THEN setPixelColor(c, 16, wscolor_active)
             ELSE IF z.metronome THEN blink(c, 16, wscolor_active)
             ELSE setPixelColor(c, 16, wscolor_default)
        e == setPixelColor(setPixelColor(d, 20, wscolor_green), 18, wscolor_red)
        f == SetPixels(e, <<19, 21, 22, 23>>, wscolor_yellow)
    IN  setPixelColor(f, 24, IF z.current_screen = "audio_mixer"
                              THEN wscolor_active ELSE wscolor_default)

\* update(), given whether the power save branch calls light_off_all.  In
\* normal mode an exception of update_wsleds is caught and logged; in power
\* save mode nothing catches one, and blink_count is not reached.
update_body(l, z, lights_off) ==
    LET l0 == [l EXCEPT !.out = <<>>, !.exc = FALSE, !.aborted = FALSE,
                        !.set_led_fails = z.set_led_fails]
    IN  IF z.power_save_mode
        THEN LET a == [l0 EXCEPT !.blink_state = (l.blink_count % 64 > 44)]
                 b == pulse(IF lights_off THEN light_off_all(a) ELSE a, 0)
             IN  IF b.exc THEN b ELSE [b EXCEPT !.blink_count = @ + 1]
        ELSE LET a == [l0 EXCEPT !.blink_state = (l.blink_count % 4 > 1)]
                 b == IF l.num_leds = V5_NUM_LEDS THEN update_wsleds(a, z)
                      ELSE update_wsleds_z2(a, z)
             IN  [b EXCEPT !.exc = FALSE, !.aborted = b.exc, !.blink_count = @ + 1]

\* Mutant: power save mode calls light_off_all.
update_lights_off(l, z) == update_body(l, z, TRUE)

\* update(): in power save mode `self.light_off_all` names the method and
\* does not call it, so LED 0 alone is written.
update(l, z) == update_body(l, z, FALSE)

\* ------------------------------------------------------------------------
\* zynthian_gui_mixer: state management
\* ------------------------------------------------------------------------
draw_mixer_controls(s) ==
    LET F[j \in 0 .. VisibleChains] ==
            IF j = 0 THEN s
            ELSE IF F[j - 1].exc THEN F[j - 1]
            ELSE draw_controls(F[j - 1], j - 1)
        a == F[VisibleChains]
    IN  IF a.exc THEN a ELSE draw_controls(a, main_mixbus_strip)

\* set_volume when zynmixer.set_level raises: nothing in the strip or the view
\* catches it.
strip_set_volume_fails(s, ref, value) ==
    IF strip_layer(s, ref) = None THEN s ELSE [s EXCEPT !.exc = TRUE]

set_volume_fails(s, value, layer_index) ==
    LET r == get_mixer_strip_from_layer_index(s, layer_index)
    IN  IF r.raised THEN [s EXCEPT !.exc = TRUE]
        ELSE IF r.strip = None THEN s
        ELSE LET s1 == strip_set_volume_fails(s, r.strip, value)
             IN  IF s1.exc THEN s1
                 ELSE IF layer_index = s.selected_chain_index THEN update_zyncoders(s1) ELSE s1

\* zyncoder_read when lib_zyncore.get_value_flag_zynpot raises: the first
\* call of it is reached whenever the view is shown.
zyncoder_read_fails(s) == IF ~s.shown THEN s ELSE [s EXCEPT !.exc = TRUE]

\* redraw_controls(force) of a strip
redraw_controls(s, ref, force) ==
    IF force \/ (IF ref = main_mixbus_strip THEN s.main_redraw_flag
                 ELSE s.strips[ref].redraw_controls_flag)
    THEN draw_controls(s, ref)
    ELSE s

redraw_mixer_controls(s, force) ==
    LET F[j \in 0 .. VisibleChains] ==
            IF j = 0 THEN s
            ELSE IF F[j - 1].exc THEN F[j - 1]
            ELSE redraw_controls(F[j - 1], j - 1, force)
        a == F[VisibleChains]
    IN  IF a.exc THEN a ELSE redraw_controls(a, main_mixbus_strip, force)

\* draw_dpm() of a visible strip reads layer.midi_chan; the meters it draws
\* are not part of the state.
draw_dpm(s, ref) ==
    IF ref = main_mixbus_strip \/ s.strips[ref].hidden THEN s
    ELSE IF s.strips[ref].layer = None THEN [s EXCEPT !.exc = TRUE]
    ELSE s

refresh_status(s) ==
    IF ~s.shown THEN s
    ELSE LET a == IF s.edit_chain_index = None
                  THEN IF \E j \in Slots : draw_dpm(s, j).exc
                       THEN [s EXCEPT !.exc = TRUE] ELSE s
                  ELSE draw_dpm(s, 0)
         IN  IF a.exc \/ ~a.redraw_pending THEN a
             ELSE LET b == redraw_mixer_controls(a, TRUE)
                  IN  IF b.exc THEN b ELSE [b EXCEPT !.redraw_pending = FALSE]

get_state(s) ==
    [strip \in Channels |->
        [level |-> s.level[strip], balance |-> s.balance[strip], mute |-> s.mute[strip],
         solo |-> s.solo[strip], mono |-> s.mono[strip]]]

\* set_state as defined below, the solo value being set on the strips in T.
\* The loop over range(MAX_NUM_CHANNELS + 1) gives the engine the record of
\* every strip, field by field.
set_state_body(s, state, T) ==
    draw_mixer_controls(
        [s EXCEPT
           !.level = [strip \in Channels |-> state[strip].level],
           !.balance = [strip \in Channels |-> state[strip].balance],
           !.mute = [strip \in Channels |-> state[strip].mute],
           !.solo = [strip \in Channels |->
                        IF strip \in T THEN state[strip].solo ELSE s.solo[strip]],
           !.mono = [strip \in Channels |-> state[strip].mono]])

\* Mutant: solo is set on the main mixbus too.
set_state_allsolo(s, state) == set_state_body(s, state, Channels)

set_state(s, state) == set_state_body(s, state, Channels \ {MAX_NUM_CHANNELS})

on_fader_wheel_down(s) ==
    IF s.mixer_strip_offset < 1 THEN s
    ELSE set_mixer_mode([s EXCEPT !.mixer_strip_offset = s.mixer_strip_offset - 1])

on_fader_wheel_up(s) ==
    IF s.mixer_strip_offset + VisibleChains >= s.number_layers THEN s
    ELSE set_mixer_mode([s EXCEPT !.mixer_strip_offset = s.mixer_strip_offset + 1])

setup_zyncoders(s) ==
    IF s.selected_layer = None THEN s
    ELSE [s EXCEPT
            !.zynpot_max = [i \in 0..3 |-> IF i = ENC_SELECT THEN 4 * s.number_layers ELSE 100],
            !.zynpot_value = [i \in 0..3 |->
                 IF i = ENC_LAYER THEN PyIntLevel100(s.level[s.selected_layer])
                 ELSE IF i = ENC_BACK THEN 50 + PyIntBalance50(s.balance[s.selected_layer])
                 ELSE IF i = ENC_SNAPSHOT THEN PyIntLevel100(s.level[main_layer])
                 ELSE 4 * s.selected_chain_index],
            !.zynpot_flag = [i \in 0..3 |-> FALSE]]

show(s) ==
    IF s.shown THEN s
    ELSE LET s1 == set_mixer_mode(s)
             s2 == IF s1.selected_chain_index = None
                   THEN select_chain_by_index(s1, 0)
                   ELSE select_chain_by_index(s1, s1.selected_chain_index)
         IN  [setup_zyncoders(s2) EXCEPT !.shown = TRUE]

hide(s) == [s EXCEPT !.shown = FALSE]

\* ------------------------------------------------------------------------
\* Chain manager (zyngui.screens['layer']): root layers are kept in MIDI
\* channel order; one is added or removed at a time.
\* ------------------------------------------------------------------------
RECURSIVE SortedSeq(_)
SortedSeq(S) ==
    IF S = {} THEN <<>>
    ELSE LET m == CHOOSE x \in S : \A y \in S : x <= y
         IN  <<m>> \o SortedSeq(S \ {m})

LayerSet(s) == {s.root_layers[i] : i \in 1..Len(s.root_layers)}

add_root_layer(s, c) ==
    [s EXCEPT !.root_layers = SortedSeq(LayerSet(s) \cup {c})]

remove_root_layer(s, c) ==
    [s EXCEPT !.root_layers = SortedSeq(LayerSet(s) \ {c})]

\* ------------------------------------------------------------------------
\* Initial state: the view as __init__ leaves it, the engine at its defaults,
\* the encoders with the ranges setup_zyncoders gives them for no chains
\* ------------------------------------------------------------------------
NavOps ==
    {"select_chain_by_index", "next", "prev", "set_mixer_mode", "set_edit_mode",
     "on_fader_wheel_down", "on_fader_wheel_up", "show", "hide"}

InitWith(T) ==
    /\ root_layers = <<>>
    /\ shown = FALSE
    /\ number_layers = 0
    /\ mixer_strip_offset = 0
    /\ selected_chain_index = None
    /\ selected_layer = None
    /\ mode = 1
    /\ edit_chain_index = None
    /\ redraw_pending = FALSE
    /\ strips = [j \in Slots |-> [layer |-> None, hidden |-> TRUE, redraw_controls_flag |-> FALSE]]
    /\ main_redraw_flag = FALSE
    /\ level = [c \in Channels |-> 80]
    /\ balance = [c \in Channels |-> 0]
    /\ mute = [c \in Channels |-> FALSE]
    /\ solo = [c \in Channels |-> FALSE]
    /\ mono = [c \in Channels |-> FALSE]
    /\ zynpot_value = [i \in 0..3 |-> 0]
    /\ zynpot_flag = [i \in 0..3 |-> FALSE]
    /\ zynpot_max = [i \in 0..3 |-> IF i = ENC_SELECT THEN 0 ELSE 100]
    /\ calls = 0
    /\ tracked = T
    /\ lastOp = NoOp
    /\ edit_entry = NoEntry
    /\ wsleds = [r \in Runs |-> wsleds_init]
    /\ zyngui = [r \in Runs |-> AppInit]

Init == InitWith(NavOps)

\* ------------------------------------------------------------------------
\* Actions
\* ------------------------------------------------------------------------
\* CUIA NEXT / SELECT_UP and PREV / SELECT_DOWN
next(s) ==
    IF s.selected_chain_index = None THEN [s EXCEPT !.exc = TRUE]
    ELSE select_chain_by_index(s, s.selected_chain_index + 1)

prev(s) ==
    IF s.selected_chain_index = None THEN [s EXCEPT !.exc = TRUE]
    ELSE select_chain_by_index(s, s.selected_chain_index - 1)

Select == shown /\ \E i \in IndexArgs : Apply("select_chain_by_index", i, None, select_chain_by_index(State, i))

CuiaNext == shown /\ Apply("next", None, None, next(State))

CuiaPrev == shown /\ Apply("prev", None, None, prev(State))

SetMixerMode == shown /\ Apply("set_mixer_mode", None, None, set_mixer_mode(State))

\* on_edit_cb of a strip: the long press selected the strip's layer first.
SetEditMode == shown /\ Apply("set_edit_mode", None, None, set_edit_mode(State))

WheelDown == shown /\ Apply("on_fader_wheel_down", None, None, on_fader_wheel_down(State))

WheelUp == shown /\ Apply("on_fader_wheel_up", None, None, on_fader_wheel_up(State))

Show == ~shown /\ Apply("show", None, None, show(State))

Hide == shown /\ Apply("hide", None, None, hide(State))

ChainAdd ==
    \E c \in Chans \ LayerSet(State) : Apply("add_root_layer", None, None, add_root_layer(State, c))

ChainRemove ==
    \E c \in LayerSet(State) : Apply("remove_root_layer", None, None, remove_root_layer(State, c))

\* A view setter called with an index, or with none (None: the selection).
Called(t) == [t EXCEPT !.calls = @ + 1]

SetVolume ==
    /\ shown /\ calls < MaxCalls
    /\ \E i \in IndexArgs \cup {None}, v \in LevelArgs :
          Apply("set_volume", i, v, Called(set_volume(State, v, i)))

SetBalance ==
    /\ shown /\ calls < MaxCalls
    /\ \E i \in IndexArgs \cup {None}, v \in BalanceArgs :
          Apply("set_balance", i, v, Called(set_balance(State, v, i)))

SetMute ==
    /\ shown /\ calls < MaxCalls
    /\ \E i \in IndexArgs \cup {None}, v \in BOOLEAN :
          Apply("set_mute", i, v, Called(set_mute(State, v, i)))

SetSolo ==
    /\ shown /\ calls < MaxCalls
    /\ \E i \in IndexArgs \cup {None}, v \in BOOLEAN :
          Apply("set_solo", i, v, Called(set_solo(State, v, i)))

SetMono ==
    /\ shown /\ calls < MaxCalls
    /\ \E i \in IndexArgs \cup {None}, v \in BOOLEAN :
          Apply("set_mono", i, v, Called(set_mono(State, v, i)))

ResetBalance ==
    /\ shown /\ calls < MaxCalls
    /\ \E i \in IndexArgs \cup {None} :
          Apply("reset_balance", i, None, Called(reset_balance(State, i)))

ResetVolume ==
    /\ shown /\ calls < MaxCalls
    /\ \E i \in IndexArgs \cup {None} :
          Apply("reset_volume", i, None, Called(reset_volume(State, i)))

ToggleSolo ==
    /\ shown /\ calls < MaxCalls
    /\ \E i \in IndexArgs \cup {None} :
          Apply("toggle_solo", i, None, Called(toggle_solo(State, i)))

\* The user turns the selector encoder by one detent.
TurnSelect ==
    /\ shown
    /\ \E d \in {-1, 1} :
          /\ zynpot_value[ENC_SELECT] + d \in 0 .. zynpot_max[ENC_SELECT]
          /\ Apply("turn", ENC_SELECT, d, turn_zynpot(State, ENC_SELECT, d))

\* The user turns one of the level and balance encoders by one detent: the
\* level encoder up, the balance and main-level encoders down.
TurnInputs == {<<ENC_LAYER, 1>>, <<ENC_BACK, -1>>, <<ENC_SNAPSHOT, -1>>}

TurnLevel ==
    /\ shown /\ calls < MaxTurns
    /\ \E in \in TurnInputs :
          /\ zynpot_value[in[1]] + in[2] \in 0 .. zynpot_max[in[1]]
          /\ Apply("turn", in[1], in[2], Called(turn_zynpot(State, in[1], in[2])))

\* The level encoders a poll finds turned: 1 for the level encoder, 2 for the
\* main-level encoder, 3 for both.
Turned ==
    (IF zynpot_flag[ENC_LAYER] THEN 1 ELSE 0) + (IF zynpot_flag[ENC_SNAPSHOT] THEN 2 ELSE 0)

\* The poll; the history keeps the level encoders the poll found turned and
\* the raw selector value it read, None when the selector's changed flag was
\* not set.
ZyncoderRead ==
    /\ shown
    /\ Apply("zyncoder_read", Turned,
             IF zynpot_flag[ENC_SELECT] THEN zynpot_value[ENC_SELECT] ELSE None,
             zyncoder_read(State))

\* The periodic refresh tick, which refreshes the screen that is shown.
RefreshStatus == shown /\ Apply("refresh_status", None, None, refresh_status(State))

\* A strip's redraw callback asks for a full redraw.
SetRedrawPending ==
    /\ shown /\ ~redraw_pending
    /\ Apply("set_redraw_pending", None, None, set_redraw_pending(State))

SetState == \E S \in StateLists : Apply("set_state", None, S, set_state(State, S))

Next ==
    \/ Select
    \/ CuiaNext
    \/ CuiaPrev
    \/ SetMixerMode
    \/ SetEditMode
    \/ WheelDown
    \/ WheelUp
    \/ Show
    \/ Hide
    \/ ChainAdd
    \/ ChainRemove

Spec == Init /\ [][Next]_vars

\* The view setters, on a view that chains were added to, that was shown and
\* that a chain was selected in.
SetterOps == {"set_volume", "set_balance", "set_mute", "set_solo", "set_mono"}

NextSet ==
    \/ ChainAdd
    \/ Show
    \/ Select
    \/ SetVolume
    \/ SetBalance
    \/ SetMute
    \/ SetSolo
    \/ SetMono

SpecSet == InitWith(SetterOps) /\ [][NextSet]_vars

\* Encoder input, in mixer mode and in edit mode; the history records the
\* set_mixer_mode steps only.
NextEnc ==
    \/ ChainAdd
    \/ Show
    \/ Select
    \/ CuiaNext
    \/ CuiaPrev
    \/ SetMixerMode
    \/ SetEditMode
    \/ WheelDown
    \/ WheelUp
    \/ TurnSelect
    \/ ZyncoderRead

SpecEnc == InitWith({"set_mixer_mode"}) /\ [][NextEnc]_vars

\* Polls of the selector encoder in mixer mode; the history records the
\* zyncoder_read steps.
NextPoll ==
    \/ ChainAdd
    \/ Show
    \/ Select
    \/ SetMixerMode
    \/ WheelDown
    \/ WheelUp
    \/ TurnSelect
    \/ ZyncoderRead

SpecPoll == InitWith({"zyncoder_read"}) /\ [][NextPoll]_vars

\* Solo set and toggled, on chains inside and outside the window.
SoloOps == {"set_solo", "toggle_solo"}

NextSolo ==
    \/ ChainAdd
    \/ Show
    \/ Select
    \/ WheelUp
    \/ SetSolo
    \/ ToggleSolo

SpecSolo == InitWith(SoloOps) /\ [][NextSolo]_vars

\* set_mixer_mode called with chains added and removed since the last call,
\* from mixer mode and from edit mode.
NextReconcile ==
    \/ ChainAdd
    \/ ChainRemove
    \/ Show
    \/ Select
    \/ SetEditMode
    \/ SetMixerMode

SpecReconcile == InitWith({"set_mixer_mode"}) /\ [][NextReconcile]_vars

\* The periodic refresh tick, with the chain list changing and a level set
\* between ticks.
TickOps == {"add_root_layer", "remove_root_layer", "refresh_status"}

NextTick ==
    \/ ChainAdd
    \/ ChainRemove
    \/ Show
    \/ SetVolume
    \/ SetRedrawPending
    \/ RefreshStatus

SpecTick == InitWith(TickOps) /\ [][NextTick]_vars

\* The mixer state, which the LED updater leaves alone.
MixerUnchanged ==
    UNCHANGED <<root_layers, shown, number_layers, mixer_strip_offset,
                selected_chain_index, selected_layer, mode, edit_chain_index,
                redraw_pending, strips, main_redraw_flag, level, balance, mute,
                solo, mono, zynpot_value, zynpot_flag, zynpot_max, calls, tracked,
                lastOp, edit_entry>>

\* Requests made while the engine and the encoder and LED library raise on
\* every call.
SetVolumeFails ==
    /\ shown
    /\ \E i \in IndexArgs \cup {None}, v \in LevelArgs :
          Apply("set_volume_fails", i, v, set_volume_fails(State, v, i))

ZyncoderReadFails ==
    /\ shown
    /\ Apply("zyncoder_read_fails", None, None, zyncoder_read_fails(State))

LedUpdateFails ==
    /\ wsleds[1].blink_count + wsleds[1].pulse_step < MaxFailedTicks
    /\ \E p \in BOOLEAN :
          LET z == [AppInit EXCEPT !.power_save_mode = p, !.set_led_fails = TRUE]
          IN  /\ zyngui' = [zyngui EXCEPT ![1] = z]
              /\ wsleds' = [wsleds EXCEPT ![1] = update(@, z)]
    /\ MixerUnchanged

FailOps == {"set_volume_fails", "zyncoder_read_fails"}

NextFail ==
    \/ ChainAdd
    \/ Show
    \/ Select
    \/ SetVolumeFails
    \/ ZyncoderReadFails
    \/ LedUpdateFails

SpecFail == InitWith(FailOps) /\ [][NextFail]_vars

\* One LED object, of either revision, started, dimmed and updated; the
\* history tracks the colours the hardware holds.
BrightnessArgs == {50, 100, 150}

\* The object of run 1 is a Z2 object instead.
LedNewZ2 ==
    /\ wsleds[1] = wsleds_init
    /\ wsleds' = [wsleds EXCEPT ![1] = wsleds_new(Z2_NUM_LEDS)]
    /\ UNCHANGED zyngui
    /\ MixerUnchanged

LedStart ==
    /\ wsleds[1].listPixels_len = LIST_PIXELS
    /\ wsleds' = [wsleds EXCEPT ![1] = start(@)]
    /\ UNCHANGED zyngui
    /\ MixerUnchanged

LedSetBrightness ==
    /\ \E b \in BrightnessArgs :
          /\ b # wsleds[1].brightness
          /\ wsleds' = [wsleds EXCEPT ![1] = set_brightness(@, b)]
    /\ UNCHANGED zyngui
    /\ MixerUnchanged

LedTick ==
    /\ wsleds[1].blink_count < MaxHwTick
    /\ \E z \in AppStates :
          /\ zyngui' = [zyngui EXCEPT ![1] = z]
          /\ wsleds' = [wsleds EXCEPT ![1] = update(@, z)]
    /\ MixerUnchanged

NextHw ==
    \/ LedNewZ2
    \/ LedStart
    \/ LedSetBrightness
    \/ LedTick

SpecHw == InitWith({"set_led"}) /\ [][NextHw]_vars

\* One LED object updated with power save mode on or off at each tick.
LedPulseTick ==
    /\ wsleds[1].blink_count < MaxPulseTick
    /\ \E p \in BOOLEAN :
          LET z == [AppInit EXCEPT !.power_save_mode = p]
          IN  /\ zyngui' = [zyngui EXCEPT ![1] = z]
              /\ wsleds' = [wsleds EXCEPT ![1] = update(@, z)]
    /\ MixerUnchanged

NextPulse == LedPulseTick

SpecPulse == InitWith({}) /\ [][NextPulse]_vars

\* The periodic LED update of both runs, each reading its own application.
LedUpdate ==
    /\ \A r \in Runs : wsleds[r].blink_count < MaxTick
    /\ \E g \in [Runs -> AppStates] :
          /\ zyngui' = g
          /\ wsleds' = [r \in Runs |-> update(wsleds[r], g[r])]
    /\ UNCHANGED <<root_layers, shown, number_layers, mixer_strip_offset,
                   selected_chain_index, selected_layer, mode, edit_chain_index,
                   redraw_pending, strips, main_redraw_flag, level, balance, mute,
                   solo, mono, zynpot_value, zynpot_flag, zynpot_max, calls, tracked,
                   lastOp, edit_entry>>

NextLeds == LedUpdate

SpecLeds == InitWith({}) /\ [][NextLeds]_vars

\* The level, balance and main-level encoders turned between polls.
NextMirror ==
    \/ ChainAdd
    \/ Show
    \/ Select
    \/ TurnLevel
    \/ ZyncoderRead

SpecMirror == InitWith({"zyncoder_read"}) /\ [][NextMirror]_vars

\* Balance and mono requests, on audio chains and on MIDI Tool chains.
BalanceOps == {"set_balance", "reset_balance", "set_mono"}

NextMidi ==
    \/ ChainAdd
    \/ Show
    \/ Select
    \/ WheelUp
    \/ SetBalance
    \/ ResetBalance
    \/ SetMono

SpecMidi == InitWith(BalanceOps) /\ [][NextMidi]_vars

\* Level and balance requests, with an index and with none.
SyncOps == {"set_volume", "set_balance", "reset_volume", "reset_balance"}

NextSync ==
    \/ ChainAdd
    \/ Show
    \/ Select
    \/ SetVolume
    \/ SetBalance
    \/ ResetVolume
    \/ ResetBalance

SpecSync == InitWith(SyncOps) /\ [][NextSync]_vars

\* The CUIA encoder nudges; the history keeps the encoder and the value it
\* held before the nudge.
BackUp ==
    /\ shown /\ calls < MaxNudges
    /\ Apply("back_up", ENC_BACK, zynpot_value[ENC_BACK], Called(back_up(State)))

BackDown ==
    /\ shown /\ calls < MaxNudges
    /\ Apply("back_down", ENC_BACK, zynpot_value[ENC_BACK], Called(back_down(State)))

LayerUp ==
    /\ shown /\ calls < MaxNudges
    /\ Apply("layer_up", ENC_LAYER, zynpot_value[ENC_LAYER], Called(layer_up(State)))

LayerDown ==
    /\ shown /\ calls < MaxNudges
    /\ Apply("layer_down", ENC_LAYER, zynpot_value[ENC_LAYER], Called(layer_down(State)))

SnapshotUp ==
    /\ shown /\ calls < MaxNudges
    /\ Apply("snapshot_up", ENC_SNAPSHOT, zynpot_value[ENC_SNAPSHOT], Called(snapshot_up(State)))

SnapshotDown ==
    /\ shown /\ calls < MaxNudges
    /\ Apply("snapshot_down", ENC_SNAPSHOT, zynpot_value[ENC_SNAPSHOT], Called(snapshot_down(State)))

NudgeOps == {"back_up", "back_down", "layer_up", "layer_down", "snapshot_up", "snapshot_down"}

NextNudge ==
    \/ ChainAdd
    \/ Show
    \/ BackUp
    \/ BackDown
    \/ LayerUp
    \/ LayerDown
    \/ SnapshotUp
    \/ SnapshotDown

SpecNudge == InitWith(NudgeOps) /\ [][NextNudge]_vars

\* Saving and restoring the mixer state, the engine having been changed
\* through the view before.
NextState ==
    \/ Show
    \/ SetVolume
    \/ SetBalance
    \/ SetMute
    \/ SetSolo
    \/ SetMono
    \/ SetState

SpecState == InitWith({"set_state"}) /\ [][NextState]_vars

\* Select again and again, with setters that mark strips and wheel scrolls
\* that move the window in between.
NextReselect ==
    \/ ChainAdd
    \/ Show
    \/ Select
    \/ SetVolume
    \/ SetSolo
    \/ WheelUp
    \/ WheelDown

\* Level requests on the chains and the main bus.
NextVolume ==
    \/ ChainAdd
    \/ Show
    \/ Select
    \/ SetVolume

SpecVolume == InitWith({"set_volume"}) /\ [][NextVolume]_vars

SpecReselect == InitWith({"select_chain_by_index"}) /\ [][NextReselect]_vars

\* The same program, the history recording the select_chain_by_index steps only.
SpecSelect == InitWith({"select_chain_by_index"}) /\ [][Next]_vars

\* ------------------------------------------------------------------------
\* Claims
\* ------------------------------------------------------------------------
\* The selection lies in the visible window or is the main bus.
Window ==
    \/ /\ mixer_strip_offset <= selected_chain_index
       /\ selected_chain_index < mixer_strip_offset + VisibleChains
    \/ selected_chain_index = number_layers

\* The chain at position k of the chain manager's list, None beyond its end.
ChainAt(k) == IF 0 <= k /\ k < Len(root_layers) THEN root_layers[k + 1] ELSE None

IsSelect(op) == op.name = "select_chain_by_index"

\* C1 (as claimed): whenever a channel is selected, the selection lies in the
\* visible window or is the main bus.
C1_Counterexample == selected_chain_index # None => Window

\* C2 (as claimed): select(index) for an index in [0, N], made in mixer mode
\* with N >= 1, and followed by set_mixer_mode, leaves the selection in the
\* visible window or on the main bus.
C2_Counterexample ==
    [][(/\ IsSelect(lastOp)
        /\ lastOp.pre.mode = 1
        /\ lastOp.pre.nl >= 1
        /\ lastOp.arg \in 0 .. lastOp.pre.nl
        /\ lastOp'.name = "set_mixer_mode") => Window']_vars

\* The engine values of channel c.
Engine(c) == <<level[c], balance[c], mute[c], solo[c], mono[c]>>

IsSetter(op) == op.name \in SetterOps

\* C3 (as claimed): a view setter called with a chain position k, 0 <= k < N,
\* changes the engine values of no channel but the chain at position k.
C3_Counterexample ==
    [][(/\ IsSetter(lastOp')
        /\ lastOp'.arg \in 0 .. (number_layers - 1)
        /\ number_layers = Len(root_layers)) =>
            \A c \in Channels \ {ChainAt(lastOp'.arg)} : Engine(c)' = Engine(c)]_vars

\* C4 (as claimed): a view setter called with an index below 0 or above N
\* changes no engine value, marks no strip and raises nothing.
C4_Counterexample ==
    [][(/\ IsSetter(lastOp')
        /\ lastOp'.arg # None
        /\ (lastOp'.arg < 0 \/ lastOp'.arg > number_layers)) =>
            /\ UNCHANGED <<level, balance, mute, solo, mono>>
            /\ UNCHANGED <<strips, main_redraw_flag>>
            /\ ~lastOp'.raised]_vars

\* C5 (as claimed): while the mode is Edit, whatever is done but leaving edit
\* mode by set_mixer_mode - select calls, next and prev, selector encoder
\* input, wheel scrolls - leaves the mode Edit and the scroll offset and the
\* selected index as they are.
C5_Counterexample ==
    [][(mode = 0 /\ lastOp'.name # "set_mixer_mode") =>
            /\ mode' = 0
            /\ UNCHANGED <<mixer_strip_offset, selected_chain_index>>]_vars

\* C6 (as claimed): in mixer mode with N >= 1, select of an index below 0
\* selects chain 0 and select of an index above N selects the main bus.
C6_Counterexample ==
    (IsSelect(lastOp) /\ lastOp.pre.mode = 1 /\ lastOp.pre.nl >= 1) =>
        /\ lastOp.arg < 0 => selected_chain_index = 0
        /\ lastOp.arg > lastOp.pre.nl => selected_chain_index = lastOp.pre.nl

\* C6 (amended): in mixer mode with N >= 1, select of an index below 0 changes
\* neither the selection nor the offset; select of any other index that is not
\* the selected one selects that index, or the main bus N when it is above N.
C6_SelectClamps ==
    (IsSelect(lastOp) /\ lastOp.pre.mode = 1 /\ lastOp.pre.nl >= 1) =>
        /\ lastOp.arg < 0 =>
              /\ selected_chain_index = lastOp.pre.sel
              /\ mixer_strip_offset = lastOp.pre.off
        /\ (lastOp.arg >= 0 /\ lastOp.arg # lastOp.pre.sel) =>
              selected_chain_index =
                 IF lastOp.arg > lastOp.pre.nl THEN lastOp.pre.nl ELSE lastOp.arg

\* An index above N was selected while a chain was selected: the main bus is.
C6_Witness ==
    /\ IsSelect(lastOp) /\ lastOp.pre.mode = 1 /\ lastOp.pre.nl >= 1
    /\ lastOp.arg > lastOp.pre.nl
    /\ lastOp.pre.sel # None /\ lastOp.pre.sel < lastOp.pre.nl
    /\ selected_chain_index = lastOp.pre.nl

\* C7: select of the index that is selected already changes nothing in the
\* view: selection, offset, selected layer, the strips' bindings, visibility
\* and redraw flags, the encoders.
C7_ReselectIsNoOp ==
    [][(IsSelect(lastOp') /\ lastOp'.arg = selected_chain_index) =>
        UNCHANGED <<selected_chain_index, mixer_strip_offset, selected_layer,
                    number_layers, mode, strips, main_redraw_flag, redraw_pending,
                    zynpot_value, zynpot_flag>>]_vars

\* The selected index was selected again, in mixer mode with chains present.
C7_Witness ==
    /\ IsSelect(lastOp) /\ lastOp.pre.mode = 1 /\ lastOp.pre.nl >= 1
    /\ lastOp.pre.sel # None /\ lastOp.arg = lastOp.pre.sel

\* C8 (as claimed): in mixer mode, select(index) with
\* offset + visible_count <= index < N sets the offset to
\* index - visible_count + 1 and binds slot j to chain offset + j, the
\* selected chain being in the last slot.
C8_Counterexample ==
    (/\ IsSelect(lastOp) /\ lastOp.pre.mode = 1
     /\ lastOp.pre.off + VisibleChains <= lastOp.arg
     /\ lastOp.arg < lastOp.pre.nl) =>
        /\ mixer_strip_offset = lastOp.arg - VisibleChains + 1
        /\ \A j \in Slots : strips[j].layer = ChainAt(mixer_strip_offset + j)
        /\ strips[VisibleChains - 1].layer = ChainAt(lastOp.arg)
        /\ strips[VisibleChains - 1].layer # None

\* C9 (as claimed): leaving edit mode by set_mixer_mode, the chain list not
\* having changed while in edit mode, gives every slot the binding it had when
\* edit mode was entered on the selected channel, and the same offset and
\* selection.
C9_Counterexample ==
    [][(/\ mode = 0
        /\ edit_entry.open /\ edit_entry.sel # None /\ ~edit_entry.changed
        /\ lastOp'.name = "set_mixer_mode") =>
            /\ \A j \in Slots : strips'[j].layer = edit_entry.layers[j]
            /\ mixer_strip_offset' = edit_entry.off
            /\ selected_chain_index' = edit_entry.sel]_vars

IsPoll(op) == op.name = "zyncoder_read"

\* C11 (as claimed): a poll in mixer mode that finds the selector's changed
\* flag set and the raw value v selects channel floor(v / 4).
C11_Counterexample ==
    (/\ IsPoll(lastOp) /\ lastOp.val # None
     /\ lastOp.pre.mode = 1 /\ lastOp.pre.nl >= 1
     /\ lastOp.val \div 4 <= lastOp.pre.nl) =>
        selected_chain_index = lastOp.val \div 4

\* C11 (amended): a poll in mixer mode that finds the selector's changed flag
\* set and the raw value v selects channel floor((v + 1) / 4), when that is a
\* channel of the view: 4k - 1, 4k, 4k + 1 and 4k + 2 select channel k.
C11_SelectorMapping ==
    (/\ IsPoll(lastOp) /\ lastOp.val # None
     /\ lastOp.pre.mode = 1 /\ lastOp.pre.nl >= 1
     /\ (lastOp.val + 1) \div 4 <= lastOp.pre.nl) =>
        selected_chain_index = (lastOp.val + 1) \div 4

\* The poll read 4k + 3 with channel k selected, and channel k + 1 is selected.
C11_Witness ==
    /\ IsPoll(lastOp) /\ lastOp.val # None
    /\ lastOp.pre.mode = 1 /\ lastOp.pre.nl >= 1
    /\ lastOp.val % 4 = 3
    /\ lastOp.pre.sel = lastOp.val \div 4
    /\ selected_chain_index = lastOp.pre.sel + 1

IsSolo(op) == op.name \in SoloOps

\* The flags of the strips: the visible ones and the main mixbus strip.
Flags == [j \in 0 .. VisibleChains |->
             IF j = main_mixbus_strip THEN main_redraw_flag
             ELSE strips[j].redraw_controls_flag]

\* C12 (as claimed): set_solo or toggle_solo with the position c of a chain
\* marks the strip bound to chain c and the main mixbus strip, and no other.
C12_Counterexample ==
    [][(/\ IsSolo(lastOp')
        /\ lastOp'.arg \in 0 .. (number_layers - 1)
        /\ number_layers = Len(root_layers)) =>
            \E j \in Slots :
                /\ strips[j].layer = ChainAt(lastOp'.arg)
                /\ Flags' = [Flags EXCEPT ![j] = TRUE, ![main_mixbus_strip] = TRUE]]_vars

\* C12 (amended): set_solo or toggle_solo with the position c of a chain that
\* is inside the window and is an audio chain marks the strip at slot
\* c - mixer_strip_offset, bound to that chain, and the main mixbus strip, and
\* no other.
C12_SoloMarks ==
    [][(/\ IsSolo(lastOp')
        /\ lastOp'.arg \in 0 .. (number_layers - 1)
        /\ lastOp'.arg - mixer_strip_offset \in Slots
        /\ is_audio_layer(strips[lastOp'.arg - mixer_strip_offset].layer)) =>
            Flags' = [Flags EXCEPT ![lastOp'.arg - mixer_strip_offset] = TRUE,
                                   ![main_mixbus_strip] = TRUE]]_vars

\* Solo was toggled on the audio chain in the second slot of a window that
\* was scrolled: that strip and the main mixbus strip are marked, the first is not.
C12_Witness ==
    /\ lastOp.name = "toggle_solo"
    /\ mixer_strip_offset = 1
    /\ lastOp.arg = 2
    /\ strips[1].layer = 2 /\ solo[2]
    /\ strips[1].redraw_controls_flag /\ main_redraw_flag
    /\ ~strips[0].redraw_controls_flag

\* The position a setter acts on: the index it is given, the selection
\* when it is given none.
Target(op) == IF op.arg = None THEN op.pre.sel ELSE op.arg

\* C13: set_balance, reset_balance and set_mono called on the position of a
\* MIDI Tool chain leave the engine balance and mono of that chain as they
\* are and mark no strip bound to it.
C13_MidiToolNoOp ==
    [][(/\ lastOp'.name \in BalanceOps
        /\ IsMidiTool(ChainAt(Target(lastOp')))) =>
            LET ch == ChainAt(Target(lastOp'))
            IN  /\ balance'[ch] = balance[ch]
                /\ mono'[ch] = mono[ch]
                /\ \A j \in Slots :
                      strips[j].layer = ch =>
                          strips'[j].redraw_controls_flag = strips[j].redraw_controls_flag]_vars

\* set_balance was called on the MIDI Tool chain, which a visible strip is
\* bound to: its balance is the default and the strip is not marked.
C13_Witness ==
    /\ lastOp.name = "set_balance"
    /\ lastOp.arg # None
    /\ IsMidiTool(ChainAt(lastOp.arg))
    /\ \E j \in Slots :
          /\ strips[j].layer = ChainAt(lastOp.arg)
          /\ j = lastOp.arg - mixer_strip_offset
          /\ ~strips[j].redraw_controls_flag
    /\ balance[ChainAt(lastOp.arg)] = 0

\* A level in hundredths brought into 0 .. 100.
Clamp01(v) == IF v < 0 THEN 0 ELSE IF v > 100 THEN 100 ELSE v

\* C14: set_volume(v) stores v clamped to [0, 1]: a level it changes becomes
\* the clamped value, and the channel of the strip it acts on (the main bus,
\* or the bound strip in the window) holds the clamped value afterwards.
C14_VolumeClamped ==
    [][lastOp'.name = "set_volume" =>
        LET t == Target(lastOp')
            v == Clamp01(lastOp'.val)
        IN  /\ \A ch \in Channels : level'[ch] # level[ch] => level'[ch] = v
            /\ (t # None /\ t >= 0 /\ t >= number_layers) => level'[main_layer] = v
            /\ (/\ t \in 0 .. (number_layers - 1)
                /\ t - mixer_strip_offset \in Slots
                /\ strips[t - mixer_strip_offset].layer # None) =>
                    level'[strips[t - mixer_strip_offset].layer] = v]_vars

\* set_volume was called with a value below 0 (and, in another state, above
\* 1) on a chain shown in the window: the engine holds 0 (or 1) for it.
C14_Witness ==
    /\ lastOp.name = "set_volume"
    /\ lastOp.arg \in 0 .. (number_layers - 1)
    /\ lastOp.arg - mixer_strip_offset \in Slots
    /\ strips[lastOp.arg - mixer_strip_offset].layer = ChainAt(lastOp.arg)
    /\ ChainAt(lastOp.arg) # None
    /\ lastOp.val > 100
    /\ level[ChainAt(lastOp.arg)] = 100

\* What the view, the engine and the encoders hold.
ViewState ==
    <<root_layers, shown, number_layers, mixer_strip_offset, selected_chain_index,
      selected_layer, mode, edit_chain_index, redraw_pending, strips,
      main_redraw_flag, level, balance, mute, solo, mono, zynpot_value,
      zynpot_flag, zynpot_max>>

\* C15: with the main bus selected and the view shown, a poll that finds the
\* level encoder or the main-level encoder (or both) turned leaves both with
\* the same value, the main-bus level at that value (in hundredths) and
\* neither changed flag raised; and a poll that finds no changed flag raised
\* changes nothing.
C15_MainMirror ==
    [][(IsPoll(lastOp') /\ shown /\ selected_layer = main_layer) =>
        /\ (zynpot_flag[ENC_LAYER] \/ zynpot_flag[ENC_SNAPSHOT]) =>
              /\ zynpot_value'[ENC_LAYER] = zynpot_value'[ENC_SNAPSHOT]
              /\ level'[main_layer] = zynpot_value'[ENC_LAYER]
              /\ ~zynpot_flag'[ENC_LAYER] /\ ~zynpot_flag'[ENC_SNAPSHOT]
        /\ (\A i \in 0 .. 3 : ~zynpot_flag[i]) => ViewState' = ViewState]_vars

\* Both encoders were turned before one poll, to different values: after the
\* poll they agree, away from the level the main bus started with.
C15_Witness ==
    /\ IsPoll(lastOp)
    /\ shown /\ selected_layer = main_layer
    /\ lastOp.arg = 3
    /\ zynpot_value[ENC_LAYER] = 81 /\ zynpot_value[ENC_SNAPSHOT] = 81
    /\ level[main_layer] = 81
    /\ ~zynpot_flag[ENC_LAYER] /\ ~zynpot_flag[ENC_SNAPSHOT]

\* C16 (as claimed): two runs whose LED updaters saw the same tick counter
\* value, the same screen and the same mode flags at their last update wrote
\* the same ordered list of (LED index, colour).
C16_Counterexample ==
    (/\ wsleds[1].blink_count = wsleds[2].blink_count
     /\ zyngui[1] = zyngui[2]) =>
        wsleds[1].out = wsleds[2].out

\* C17 (as claimed): after set_mixer_mode the selected index is unset or lies
\* in 0 .. N for the chain count N the call computed.
C17_Counterexample ==
    lastOp.name = "set_mixer_mode" =>
        \/ selected_chain_index = None
        \/ selected_chain_index \in 0 .. number_layers

\* C18: set_mixer_mode leaves selected_chain_index as it is, whatever the
\* chain count was before the call and is after it.
C18_ReconcileKeepsSelection ==
    [][lastOp'.name = "set_mixer_mode" =>
            selected_chain_index' = selected_chain_index]_vars

\* set_mixer_mode found fewer chains than the view had cached, and the
\* selection is where it was, now beyond the main bus.
C18_Witness ==
    /\ lastOp.name = "set_mixer_mode"
    /\ number_layers < lastOp.pre.nl
    /\ selected_chain_index = lastOp.pre.sel
    /\ selected_chain_index > number_layers

\* The strips are bound as the chain manager's list and the offset say.
Reconciled ==
    /\ number_layers = Len(root_layers)
    /\ \A j \in Slots : strips[j].layer = ChainAt(mixer_strip_offset + j)

\* C19 (as claimed): the refresh tick that follows a change of the chain list
\* made while the view is shown leaves the view reconciled: the cached count
\* is the new N and slot j is bound to the chain at mixer_strip_offset + j,
\* unbound when that position is N or more.
C19_Counterexample ==
    [][(/\ shown
        /\ lastOp.name \in {"add_root_layer", "remove_root_layer"}
        /\ lastOp'.name = "refresh_status") => Reconciled']_vars

\* C20 (as claimed): the refresh tick, the view shown, clears the dirty flag
\* of every bound visible strip and of the main strip that a setter marked.
C20_Counterexample ==
    [][(shown /\ lastOp'.name = "refresh_status") =>
        /\ \A j \in Slots :
              (strips[j].redraw_controls_flag /\ ~strips[j].hidden /\ strips[j].layer # None) =>
                  ~strips'[j].redraw_controls_flag
        /\ main_redraw_flag => ~main_redraw_flag']_vars

\* C21 (as claimed): when the engine or the encoder and LED library raises
\* during set_volume, an encoder poll or an LED update, no exception leaves
\* the operation, the view state is as it was, and the LED tick counter
\* advances.
C21_Counterexample ==
    [][/\ lastOp'.name \in FailOps => (~lastOp'.raised /\ ViewState' = ViewState)
       /\ wsleds' # wsleds =>
             /\ ~wsleds'[1].exc
             /\ wsleds'[1].blink_count = wsleds[1].blink_count + 1]_vars

\* The step is an update() of the LED object of run 1 that returned.
IsLedUpdate == wsleds'[1].blink_count = wsleds[1].blink_count + 1

\* The LED indexes the last update wrote.
Written(l) == {l.out[k][1] : k \in 1 .. Len(l.out)}

\* C22 (as claimed): an update that follows one which wrote every LED issues
\* no set_led call with the colour the LED holds already.
C22_Counterexample ==
    [][(IsLedUpdate /\ Written(wsleds[1]) = 0 .. (wsleds[1].num_leds - 1)) =>
        \A k \in 1 .. Len(wsleds'[1].out) :
            wsleds'[1].out[k][2] # wsleds[1].leds[wsleds'[1].out[k][1]]]_vars

\* C28 (as claimed): every normal-mode update, after any start and
\* set_brightness calls, runs update_wsleds to its end and writes every LED
\* index of the revision, 0 .. num_leds - 1.
C28_Counterexample ==
    [][(IsLedUpdate /\ ~zyngui'[1].power_save_mode) =>
        /\ ~wsleds'[1].aborted
        /\ Written(wsleds'[1]) = 0 .. (wsleds'[1].num_leds - 1)]_vars

\* C29 (as claimed): after an update in power save mode every LED but LED 0
\* is off.
C29_Counterexample ==
    [][(IsLedUpdate /\ zyngui'[1].power_save_mode) =>
        \A i \in 1 .. (wsleds'[1].num_leds - 1) : wsleds'[1].leds[i] = wscolor_off]_vars

\* C30 (as claimed): pulse_step stays within 0 .. 19.
C30_Counterexample == wsleds[1].pulse_step \in 0 .. 19

\* C23 (as claimed): while a channel is selected in mixer mode, selected_layer
\* is the main layer exactly when selected_chain_index is the chain count, and
\* otherwise it is the layer of the strip get_mixer_strip_from_layer_index
\* returns for the selection.
C23_Counterexample ==
    (mode = 1 /\ selected_chain_index # None) =>
        LET r == get_mixer_strip_from_layer_index(State, None)
        IN  /\ (selected_layer = main_layer) <=> (selected_chain_index = number_layers)
            /\ selected_chain_index # number_layers =>
                   /\ ~r.raised
                   /\ r.strip # None
                   /\ strip_layer(State, r.strip) = selected_layer

\* C24 (as claimed): after set_volume, set_balance, reset_volume or
\* reset_balance called with no index while a channel is selected, the level
\* encoder holds int(100 * level) and the balance encoder 50 + int(50 * balance)
\* of the selected channel.
C24_Counterexample ==
    [][(/\ lastOp'.name \in SyncOps
        /\ lastOp'.arg = None
        /\ ~lastOp'.raised
        /\ selected_chain_index' # None
        /\ selected_layer' # None) =>
            /\ zynpot_value'[ENC_LAYER] = PyIntLevel100(level'[selected_layer'])
            /\ zynpot_value'[ENC_BACK] = 50 + PyIntBalance50(balance'[selected_layer'])]_vars

\* C25 (as claimed): no step of the view - a setter, an encoder poll, a
\* selection - changes the engine balance of a MIDI Tool chain.
C25_Counterexample ==
    [][\A ch \in MidiToolChans : balance'[ch] = balance[ch]]_vars

\* C26 (as claimed): the mode is Edit exactly when edit_chain_index is set,
\* and then edit_chain_index is the selection, the selection is set and the
\* last visible strip is bound to selected_layer.
C26_Counterexample ==
    /\ (mode = 0) <=> (edit_chain_index # None)
    /\ mode = 0 =>
          /\ edit_chain_index = selected_chain_index
          /\ selected_chain_index # None
          /\ strips[VisibleChains - 1].layer = selected_layer

\* The CUIA nudge pairs and the encoder each pair acts on.
NudgePairs ==
    {[up |-> "layer_up", down |-> "layer_down", enc |-> ENC_LAYER],
     [up |-> "snapshot_up", down |-> "snapshot_down", enc |-> ENC_SNAPSHOT],
     [up |-> "back_up", down |-> "back_down", enc |-> ENC_BACK]}

\* C27 (as claimed): an up nudge followed at once by the down nudge of the
\* same encoder, the encoder having been below the upper end of its range,
\* both end without an exception and leave the encoder at the value it held
\* before the up nudge.
C27_Counterexample ==
    [][\A p \in NudgePairs :
          (/\ lastOp.name = p.up
           /\ lastOp'.name = p.down
           /\ lastOp.val < zynpot_max[p.enc]) =>
              /\ ~lastOp.raised
              /\ ~lastOp'.raised
              /\ zynpot_value'[p.enc] = lastOp.val]_vars

====
